---- MODULE Spec2Model ----
(***************************************************************************)
(* Model of the go-restconf client's resilient request pipeline:           *)
(* the transient-error classifier (checkTransientError), the backoff       *)
(* policy (Client.Backoff) and the retry loop and write-completion wait    *)
(* of Client.Do, and the discovery step and the client mutex under         *)
(* concurrent data operations.                                             *)
(*                                                                         *)
(* Strings are sequences of text chunks; the empty string is <<>>.         *)
(* regexp.MatchString with a metacharacter-free pattern is an unanchored   *)
(* search, i.e. "the pattern occurs as a contiguous part of the string".   *)
(***************************************************************************)
EXTENDS Integers, Sequences, FiniteSets, TLC

VARIABLES
    MaxRetries,   \* Client.MaxRetries
    req,          \* the Req handed to Do: Method, ContentType header, Wait
    pc,           \* position of the Do call: idle, loop, wait, done
    attempts,     \* Do's loop counter
    res,          \* Do's local Res (returned to the caller)
    err,          \* the error Do returns ("nil" for none)
    hist,         \* observer: outcome of every attempt of this call
    sends,        \* observer: requests sent by the retry loop
    sleeps,       \* observer: backoff sleeps performed
    polls,        \* observer: datastore-status queries sent
    wsleeps,      \* observer: one-second sleeps of the wait loop
    wire,         \* Do's retained body, and req.HttpReq.Body at the latest send
    phist,        \* observer: what every poll of the wait loop reported
    lastBody,     \* observer: the response body the latest attempt read
    cres,         \* classifier run: the Res given to checkTransientError
    transient,    \* classifier run: whether it was called, and its result
    bcfg,         \* backoff run: the client's retry configuration
    battempts,    \* backoff run: the attempts argument
    brand,        \* backoff run: the value drawn from rand.Float64()
    bout,         \* backoff run: whether Backoff was called, and its result
    mutex,        \* client.mutex: 0 when free, else the goroutine holding it
    client,       \* the Client's discovery state
    procs,        \* per goroutine: the data operation it is executing
    net,          \* observer: requests sent and discovery fields written
    rules,        \* classifier run: the rule table in TransientErrors
    pollIn,       \* wait-poll run: the loop counter and the body read
    pollOut,      \* wait-poll run: whether the poll was made, and its outcome
    newc          \* NewClient run: whether it was called, and the Client it built

doVars == <<MaxRetries, req, pc, attempts, res, err, hist, sends, sleeps, polls, wsleeps,
            wire, phist, lastBody>>
clVars == <<cres, transient>>
boVars == <<bcfg, battempts, brand, bout>>
coVars == <<mutex, client, procs, net>>
fnVars == <<rules, pollIn, pollOut, newc>>
vars == <<MaxRetries, req, pc, attempts, res, err, hist, sends, sleeps, polls, wsleeps,
          wire, phist, lastBody, cres, transient, bcfg, battempts, brand, bout,
          mutex, client, procs, net, rules, pollIn, pollOut, newc>>

----------------------------------------------------------------------------
(* Bounds *)

\* largest MaxRetries a client is configured with
RetryBound == 2
\* largest number of error records in one response (top-level plus per-edit)
MaxErrs == 2

----------------------------------------------------------------------------
(* Strings and regular-expression matching *)

\* text chunks that make up error messages
ChunkInconsistent == "inconsistent value"
ChunkRefused == ": Device refused one or more commands"
ChunkOther == "other text"

\* regexp.MatchString(pattern, s) for a literal pattern: unanchored search
MatchString(pattern, s) ==
    \E i \in 1..(Len(s) - Len(pattern) + 1) :
        SubSeq(s, i, i + Len(pattern) - 1) = pattern

----------------------------------------------------------------------------
(* Error records and the transient rule table *)

ErrorModel(type, tag, msg) ==
    [ErrorType |-> type, ErrorTag |-> tag, ErrorAppTag |-> <<>>,
     ErrorPath |-> <<>>, ErrorMessage |-> msg, ErrorInfo |-> <<>>]

TransientError(status, tag, msg) ==
    [StatusCode |-> status, ErrorType |-> <<>>, ErrorTag |-> tag,
     ErrorAppTag |-> <<>>, ErrorPath |-> <<>>, ErrorMessage |-> msg,
     ErrorInfo |-> <<>>]

\* the table with the first rule's message pattern shortened
TransientErrorsShortMessage ==
    << TransientError(400, <<"invalid-value">>, <<ChunkInconsistent>>),
       TransientError(0, <<"lock-denied">>, <<>>),
       TransientError(0, <<"in-use">>, <<>>),
       TransientError(500, <<>>, <<>>),
       TransientError(501, <<>>, <<>>),
       TransientError(502, <<>>, <<>>),
       TransientError(503, <<>>, <<>>),
       TransientError(504, <<>>, <<>>) >>

TransientErrors ==
    << TransientError(400, <<"invalid-value">>, <<ChunkInconsistent, ChunkRefused>>),
       TransientError(0, <<"lock-denied">>, <<>>),
       TransientError(0, <<"in-use">>, <<>>),
       TransientError(500, <<>>, <<>>),
       TransientError(501, <<>>, <<>>),
       TransientError(502, <<>>, <<>>),
       TransientError(503, <<>>, <<>>),
       TransientError(504, <<>>, <<>>) >>

\* the field tests of one rule against one error, in the order of the code:
\* <<the rule specifies the field, the field matches>>
RuleChecks(rule, resError, status) ==
    << <<rule.StatusCode # 0, rule.StatusCode = status>>,
       <<rule.ErrorType # <<>>, MatchString(rule.ErrorType, resError.ErrorType)>>,
       <<rule.ErrorTag # <<>>, MatchString(rule.ErrorTag, resError.ErrorTag)>>,
       <<rule.ErrorAppTag # <<>>, MatchString(rule.ErrorAppTag, resError.ErrorAppTag)>>,
       <<rule.ErrorPath # <<>>, MatchString(rule.ErrorPath, resError.ErrorPath)>>,
       <<rule.ErrorMessage # <<>>, MatchString(rule.ErrorMessage, resError.ErrorMessage)>>,
       <<rule.ErrorInfo # <<>>, MatchString(rule.ErrorInfo, resError.ErrorInfo)>> >>

\* body of the inner loop from its k-th "if": a specified field that matches
\* sets found, one that does not match leaves the iteration by "continue"
RECURSIVE FieldScan(_, _, _)
FieldScan(checks, k, found) ==
    IF k > Len(checks) THEN [found |-> found, continued |-> FALSE]
    ELSE IF checks[k][1]
         THEN IF checks[k][2] THEN FieldScan(checks, k + 1, TRUE)
              ELSE [found |-> found, continued |-> TRUE]
         ELSE FieldScan(checks, k + 1, found)

\* the inner loop over the rule table from rule j: found is reset at the top
\* of each iteration and "if found { break }" ends the inner loop only
RECURSIVE RuleLoop(_, _, _, _, _)
RuleLoop(table, j, resError, status, found) ==
    IF j > Len(table) THEN found
    ELSE LET r == FieldScan(RuleChecks(table[j], resError, status), 1, FALSE)
         IN  IF ~r.continued /\ r.found THEN TRUE
             ELSE RuleLoop(table, j + 1, resError, status, r.found)

\* the outer loop over the combined error list from error i
RECURSIVE ErrorLoop(_, _, _, _, _)
ErrorLoop(table, errors, i, status, found) ==
    IF i > Len(errors) THEN found
    ELSE ErrorLoop(table, errors, i + 1, status,
                   RuleLoop(table, 1, errors[i], status, found))

\* concatenation of the per-edit error lists
RECURSIVE EditErrors(_)
EditErrors(edits) ==
    IF edits = <<>> THEN <<>> ELSE Head(edits) \o EditErrors(Tail(edits))

\* the list checkTransientError iterates over
CombinedErrors(r) == r.Errors \o EditErrors(r.YangPatchStatus.Edit)

checkTransientError(r) ==
    ErrorLoop(TransientErrors, CombinedErrors(r), 1, r.StatusCode, FALSE)

----------------------------------------------------------------------------
(* Backoff policy *)

\* the model's clock resolution: ticks per second (time.Second in the code)
TicksPerSecond == 1000
\* rand.Float64() is drawn as brand / JitterSteps
JitterSteps == 2

RECURSIVE Pow(_, _)
Pow(b, n) == IF n <= 0 THEN 1 ELSE b * Pow(b, n - 1)

\* conversion of a float to time.Duration: truncation toward zero (den > 0)
TruncDiv(num, den) == IF num >= 0 THEN num \div den ELSE -((-num) \div den)

\* the duration Backoff sleeps. The delay factor is the fraction Num/Den,
\* rnd / JitterSteps is the value of rand.Float64().
\*   backoff := min * factor^attempts, capped at maxDelay,
\*   backoff = (rand/2 + 0.5) * (backoff - min) + min
BackoffDurationUncapped(cfg, a, rnd) ==
    LET den    == Pow(cfg.BackoffDelayFactor.Den, a)
        min    == cfg.BackoffMinDelay * TicksPerSecond
        rawNum == min * Pow(cfg.BackoffDelayFactor.Num, a)
    IN  TruncDiv((rnd + JitterSteps) * (rawNum - min * den) + min * den * 2 * JitterSteps,
                 den * 2 * JitterSteps)

BackoffDuration(cfg, a, rnd) ==
    LET den    == Pow(cfg.BackoffDelayFactor.Den, a)
        min    == cfg.BackoffMinDelay * TicksPerSecond
        max    == cfg.BackoffMaxDelay * TicksPerSecond
        rawNum == min * Pow(cfg.BackoffDelayFactor.Num, a)
        capNum == IF rawNum > max * den THEN max * den ELSE rawNum
    IN  TruncDiv((rnd + JitterSteps) * (capNum - min * den) + min * den * 2 * JitterSteps,
                 den * 2 * JitterSteps)

\* "if attempts >= client.MaxRetries { return false }", off by one
RetryAllowedInclusive(a, maxRetries) == a <= maxRetries

\* a policy that never permits a retry
RetryAllowedNever(a, maxRetries) == FALSE

\* the guard of Backoff: a retry is allowed while attempts < MaxRetries
RetryAllowed(a, maxRetries) == ~(a >= maxRetries)

\* Client.Backoff: the returned flag and the sleeps it performed
Backoff(cfg, a, rnd) ==
    IF ~RetryAllowed(a, cfg.MaxRetries)
    THEN [ok |-> FALSE, slept |-> <<>>]
    ELSE [ok |-> TRUE, slept |-> <<BackoffDuration(cfg, a, rnd)>>]

----------------------------------------------------------------------------
(* Responses and their parsing *)

EmptyStatus == [Errors |-> <<>>, Edit |-> <<>>]
EmptyBody == [kind |-> "empty", errs |-> <<>>, edits |-> <<>>]
GarbageBody == [kind |-> "garbage", errs |-> <<>>, edits |-> <<>>]
\* Res{}
EmptyRes == [StatusCode |-> 0, Errors |-> <<>>, YangPatchStatus |-> EmptyStatus,
             Res |-> EmptyBody]

\* json.Unmarshal into ErrorsRootModel: the "errors" envelope
ParseErrorsRoot(body) == IF body.kind = "errors" THEN body.errs ELSE <<>>
\* json.Unmarshal into ErrorsRootNamespaceModel: the "ietf-restconf:errors" envelope
ParseErrorsRootNamespace(body) == IF body.kind = "nserrors" THEN body.errs ELSE <<>>
\* json.Unmarshal into YangPatchStatusRootModel
ParseYangPatchStatus(body) ==
    IF body.kind = "patch" THEN [Errors |-> body.errs, Edit |-> body.edits]
    ELSE EmptyStatus

\* Do, from the status assignment to the payload assignment: the envelope
\* after a response whose body was read
ParseResponse(r, rq, status, body) ==
    LET r1 == [r EXCEPT !.StatusCode = status]
        r2 == IF status >= 300 /\ body.kind # "empty"
              THEN IF rq.ContentType = "application/yang-data+json"
                   THEN LET plain == ParseErrorsRoot(body)
                        IN  [r1 EXCEPT !.Errors = IF Len(plain) > 0 THEN plain
                                                  ELSE ParseErrorsRootNamespace(body),
                                       !.YangPatchStatus = EmptyStatus]
                   ELSE IF rq.ContentType = "application/yang-patch+json"
                        THEN LET st == ParseYangPatchStatus(body)
                             IN  [r1 EXCEPT !.YangPatchStatus = st, !.Errors = st.Errors]
                        ELSE r1
              ELSE [r1 EXCEPT !.Errors = <<>>, !.YangPatchStatus = EmptyStatus]
    IN  [r2 EXCEPT !.Res = body]

\* the decision chain without the DELETE/502 exit
DecideNoDeleteExit(r, rq, a, maxRetries) ==
    IF checkTransientError(r)
    THEN IF RetryAllowed(a, maxRetries) THEN "continue" ELSE "fail"
    ELSE IF r.StatusCode < 200 \/ r.StatusCode > 299 THEN "fail"
    ELSE IF Len(r.Errors) > 0
         THEN IF RetryAllowed(a, maxRetries) THEN "continue" ELSE "fail"
         ELSE "break"

\* the decision chain with non-2xx responses retried through Backoff
DecideRetryNon2xx(r, rq, a, maxRetries) ==
    IF rq.Method = "DELETE" /\ r.StatusCode = 502 THEN "break"
    ELSE IF checkTransientError(r) \/ r.StatusCode < 200 \/ r.StatusCode > 299
    THEN IF RetryAllowed(a, maxRetries) THEN "continue" ELSE "fail"
    ELSE IF Len(r.Errors) > 0
         THEN IF RetryAllowed(a, maxRetries) THEN "continue" ELSE "fail"
         ELSE "break"

\* the decision chain without the test for a status outside 200..299
DecideNoStatusCheck(r, rq, a, maxRetries) ==
    IF rq.Method = "DELETE" /\ r.StatusCode = 502 THEN "break"
    ELSE IF checkTransientError(r)
    THEN IF RetryAllowed(a, maxRetries) THEN "continue" ELSE "fail"
    ELSE IF Len(r.Errors) > 0
         THEN IF RetryAllowed(a, maxRetries) THEN "continue" ELSE "fail"
         ELSE "break"

\* Do, after the envelope is filled: leave the loop ("break"), sleep and
\* send again ("continue"), or return an error ("fail")
Decide(r, rq, a, maxRetries) ==
    IF rq.Method = "DELETE" /\ r.StatusCode = 502 THEN "break"
    ELSE IF checkTransientError(r)
    THEN IF RetryAllowed(a, maxRetries) THEN "continue" ELSE "fail"
    ELSE IF r.StatusCode < 200 \/ r.StatusCode > 299 THEN "fail"
    ELSE IF Len(r.Errors) > 0
         THEN IF RetryAllowed(a, maxRetries) THEN "continue" ELSE "fail"
         ELSE "break"

----------------------------------------------------------------------------
(* Inputs: requests, error records, response bodies, device answers *)

\* sequences over S of length at most n
SeqsUpTo(S, n) == UNION {[1..k -> S] : k \in 0..n}

ErrLockDenied == ErrorModel(<<"protocol">>, <<"lock-denied">>, <<>>)
ErrInUse == ErrorModel(<<"application">>, <<"in-use">>, <<ChunkOther>>)
ErrInconsistentRefused ==
    ErrorModel(<<"application">>, <<"invalid-value">>, <<ChunkInconsistent, ChunkRefused>>)
ErrInconsistent == ErrorModel(<<"application">>, <<"invalid-value">>, <<ChunkInconsistent>>)
ErrRefusedInside ==
    ErrorModel(<<"application">>, <<"invalid-value">>,
               <<ChunkOther, ChunkInconsistent, ChunkRefused, ChunkOther>>)
ErrInvalidValue == ErrorModel(<<"application">>, <<"invalid-value">>, <<ChunkOther>>)
ErrAccessDenied == ErrorModel(<<"protocol">>, <<"access-denied">>, <<>>)

\* error records given to the classifier
ClassifierErrors ==
    {ErrLockDenied, ErrInUse, ErrInconsistentRefused, ErrInconsistent,
     ErrRefusedInside, ErrInvalidValue, ErrAccessDenied}

\* HTTP status codes given to the classifier
ClassifierStatuses == {200, 400, 409, 500, 501, 502, 503, 504}

\* per-edit error lists of a patch-status record holding at most n errors
EditLists(E, n) ==
    {<<>>, << <<>> >>}
    \cup {<<l>> : l \in SeqsUpTo(E, n)}
    \cup {<<l1, l2>> : l1 \in IF n >= 1 THEN SeqsUpTo(E, 1) ELSE {},
                       l2 \in IF n >= 1 THEN SeqsUpTo(E, n - 1) ELSE {}}

\* envelopes given to the classifier: at most MaxErrs errors in all
ClassifierInputs ==
    UNION {{[StatusCode |-> st, Errors |-> l,
             YangPatchStatus |-> [Errors |-> <<>>, Edit |-> d], Res |-> GarbageBody] :
              st \in ClassifierStatuses, d \in EditLists(ClassifierErrors, MaxErrs - Len(l))} :
           l \in SeqsUpTo(ClassifierErrors, MaxErrs)}

\* HTTP status codes the device answers a Do call with
Statuses == {200, 400, 405, 502, 503}
\* status codes of the answers whose body cannot be read
ReadFailStatuses == {200}

ErrorsBody(kind, errs) == [kind |-> kind, errs |-> errs, edits |-> <<>>]
PatchBody(errs, edits) == [kind |-> "patch", errs |-> errs, edits |-> edits]

\* response bodies the device answers a Do call with: nothing, something that
\* is no envelope, an error envelope in either of its two shapes, a
\* patch-status envelope
Bodies ==
    {EmptyBody, GarbageBody,
     ErrorsBody("errors", <<ErrLockDenied>>),
     ErrorsBody("errors", <<ErrInvalidValue>>),
     ErrorsBody("errors", <<ErrLockDenied, ErrInvalidValue>>),
     ErrorsBody("errors", <<ErrInvalidValue, ErrLockDenied>>),
     ErrorsBody("nserrors", <<ErrLockDenied>>),
     PatchBody(<<>>, << <<ErrLockDenied>> >>),
     PatchBody(<<ErrInvalidValue>>, <<>>)}

\* the payload PostData, PutData, PatchData and YangPatchData are given
Payload == <<"b1", "b2">>

\* requests: those of GetData, DeleteData, PostData, PatchData and
\* YangPatchData, a POST whose Content-Type header the caller replaced, and
\* requests with the Wait modifier; GetData and DeleteData pass a nil body
Requests ==
    {[Method |-> m, ContentType |-> "application/yang-data+json", Wait |-> FALSE,
      Body |-> IF m \in {"GET", "DELETE"} THEN <<>> ELSE Payload] :
        m \in {"GET", "DELETE", "POST", "PATCH"}}
    \cup {[Method |-> "PATCH", ContentType |-> "application/yang-patch+json", Wait |-> FALSE,
           Body |-> Payload],
          [Method |-> "POST", ContentType |-> "text/plain", Wait |-> FALSE,
           Body |-> Payload]}
    \cup {[Method |-> m, ContentType |-> "application/yang-data+json", Wait |-> TRUE,
           Body |-> IF m \in {"GET", "DELETE"} THEN <<>> ELSE Payload] :
            m \in {"GET", "DELETE", "POST"}}

NoReq == [Method |-> "", ContentType |-> "", Wait |-> FALSE, Body |-> <<>>]

\* datastore records of a write-completion poll answer
Datastore(name, status, locks) == [Name |-> name, Status |-> status, PartialLock |-> locks]
DatastoreLists ==
    SeqsUpTo({Datastore("running", "valid", 1), Datastore("running", "valid", 0),
              Datastore("running", "invalid", 1), Datastore("candidate", "valid", 1)}, 2)

\* the wait loop's scan that ignores the datastore's status
HasLockAnyStatus(datastores) ==
    \E k \in 1..Len(datastores) :
        /\ datastores[k].Name = "running"
        /\ datastores[k].PartialLock > 0

\* the wait loop's scan of the parsed datastore list
HasLock(datastores) ==
    \E k \in 1..Len(datastores) :
        /\ datastores[k].Name = "running"
        /\ datastores[k].Status = "valid"
        /\ datastores[k].PartialLock > 0

\* number of iterations of the wait loop
PollLimit == 10

\* a wait loop that runs once more
MorePollsInclusive(i) == i <= PollLimit

\* the wait loop's condition, i being its counter
MorePolls(i) == i < PollLimit

\* a wait loop that goes to its next iteration after a failed poll
AfterPollErrorNextPoll(i) == IF MorePolls(i + 1) THEN "wait" ELSE "done"

\* a poll of iteration i whose request or body read fails: "return res, err"
AfterPollError(i) == "done"

\* what a poll answer says about the running datastore, as the observer
\* phist records it
Report(datastores) ==
    IF \E k \in 1..Len(datastores) :
            /\ datastores[k].Name = "running" /\ datastores[k].Status = "valid"
            /\ datastores[k].PartialLock # 0
    THEN "locked" ELSE "clear"

\* io.ReadAll: every unread byte of the reader
ReadAll(reader) == reader

\* the rest of a reader of which the transport has read n bytes
Rest(reader, n) == SubSeq(reader, n + 1, Len(reader))

\* an iteration that sends the request's reader as the last send left it
AttemptBodyLeftover(w) == w.left

\* the reader an iteration gives the request: a new buffer over the retained
\* body
AttemptBody(w) == w.body

NoWire == [body |-> <<>>, sent |-> <<>>, left |-> <<>>]

----------------------------------------------------------------------------
(* The client's discovery state and the goroutines calling it *)

\* number of goroutines sharing the client
ProcBound == 2
Procs == 1..ProcBound

\* the fields NewClient leaves at their zero values
NewClientState ==
    [DiscoveryComplete |-> FALSE, RestconfEndpoint |-> "", Capabilities |-> <<>>,
     YangPatchCapability |-> FALSE]

\* a goroutine that is in no data operation
ProcIdle ==
    [pc |-> "idle", op |-> "", wait |-> FALSE, attempts |-> 0, err |-> "nil",
     doc |-> "none", caps |-> FALSE, sent |-> FALSE, polls |-> 0]

\* a SkipDiscovery that leaves DiscoveryComplete unset
SkipDiscoveryIncomplete(c, restconfEndpoint, yangPatchCapability) ==
    [c EXCEPT !.RestconfEndpoint = restconfEndpoint,
              !.YangPatchCapability = yangPatchCapability]

\* the SkipDiscovery option applied by NewClient
SkipDiscovery(c, restconfEndpoint, yangPatchCapability) ==
    [c EXCEPT !.RestconfEndpoint = restconfEndpoint,
              !.YangPatchCapability = yangPatchCapability,
              !.DiscoveryComplete = TRUE]

\* the endpoint given to SkipDiscovery
SkipEndpoint == "/skip"

\* the client was built without SkipDiscovery
NoSkip == [on |-> FALSE, endpoint |-> "", yangPatch |-> FALSE]

\* what the observer net holds for a new client: no discovery document with
\* the marker received (doc), no capabilities request sent (caps), none
\* failed (capsFailed) and none answered (capsAnswer), RestconfEndpoint and
\* Capabilities never assigned by discovery, and the SkipDiscovery option
\* the client was built with (skip)
NoTraffic ==
    [doc |-> 0, caps |-> 0, capsFailed |-> FALSE, capsAnswer |-> "none",
     endpointWrites |-> 0, capabilityWrites |-> 0, skip |-> NoSkip]

CoIdle ==
    /\ mutex = 0 /\ client = NewClientState
    /\ procs = [p \in Procs |-> ProcIdle] /\ net = NoTraffic

----------------------------------------------------------------------------
(* Client.Do *)

DoIdle ==
    /\ req = NoReq /\ pc = "idle" /\ attempts = 0 /\ res = EmptyRes /\ err = "nil"
    /\ hist = <<>> /\ sends = 0 /\ sleeps = 0 /\ polls = 0 /\ wsleeps = 0
    /\ wire = NoWire /\ phist = <<>> /\ lastBody = EmptyBody

NotClassified == [called |-> FALSE, found |-> FALSE]
NotCalled == [called |-> FALSE, ok |-> FALSE, slept |-> <<>>]

ClIdle == cres = EmptyRes /\ transient = NotClassified

\* no poll made
NoPollIn == [i |-> 0, body |-> [kind |-> "empty", datastores |-> <<>>]]
NoPollOut == [called |-> FALSE, parseError |-> FALSE, hasLock |-> FALSE,
              pc |-> "wait", err |-> "nil", slept |-> 0]

\* NewClient not called
NoNewClient ==
    [called |-> FALSE,
     client |-> [Insecure |-> FALSE, InsecureSkipVerify |-> FALSE,
                 MaxRetries |-> 0, BackoffMinDelay |-> 0, BackoffMaxDelay |-> 0,
                 BackoffDelayFactor |-> [Num |-> 1, Den |-> 1],
                 DiscoveryComplete |-> FALSE, RestconfEndpoint |-> "",
                 YangPatchCapability |-> FALSE]]

\* the package's rule table as declared, no poll made, NewClient not called
FnIdle ==
    /\ rules = TransientErrors /\ pollIn = NoPollIn /\ pollOut = NoPollOut
    /\ newc = NoNewClient

BoIdle ==
    /\ bcfg = [MaxRetries |-> 0, BackoffMinDelay |-> 0, BackoffMaxDelay |-> 0,
               BackoffDelayFactor |-> [Num |-> 1, Den |-> 1]]
    /\ battempts = 0 /\ brand = 0 /\ bout = NotCalled

Init ==
    /\ MaxRetries \in -1..RetryBound
    /\ DoIdle /\ ClIdle /\ BoIdle /\ CoIdle /\ FnIdle

\* Do is entered: the request body is read and retained, res := Res{},
\* attempts := 0
DoCall ==
    /\ pc = "idle"
    /\ \E rq \in Requests :
        /\ req' = rq
        /\ wire' = [body |-> ReadAll(rq.Body), sent |-> <<>>,
                    left |-> Rest(rq.Body, Len(rq.Body))]
    /\ pc' = "loop"
    /\ attempts' = 0
    /\ res' = EmptyRes
    /\ err' = "nil"
    /\ hist' = <<>>
    /\ sends' = 0 /\ sleeps' = 0 /\ polls' = 0 /\ wsleeps' = 0
    /\ phist' = <<>> /\ lastBody' = EmptyBody
    /\ UNCHANGED <<MaxRetries, cres, transient, bcfg, battempts, brand, bout, coVars, fnVars>>

\* a wait that is entered for every method
AfterLoopAnyMethod(rq) == IF rq.Wait THEN "wait" ELSE "done"

\* where the call goes when the loop is left by "break"
AfterLoop(rq) == IF rq.Wait /\ rq.Method # "GET" THEN "wait" ELSE "done"

\* a failed send that is followed by the next one without a sleep
SendFailsNoSleep ==
    /\ pc = "loop"
    /\ sends' = sends + 1
    /\ hist' = Append(hist, [kind |-> "transport", status |-> 0])
    /\ wire' = [wire EXCEPT !.sent = wire.body, !.left = <<>>]
    /\ lastBody' = EmptyBody
    /\ IF RetryAllowed(attempts, MaxRetries)
       THEN /\ attempts' = attempts + 1
            /\ UNCHANGED <<pc, err>>
       ELSE /\ pc' = "done"
            /\ err' = "transport"
            /\ UNCHANGED attempts
    /\ UNCHANGED <<MaxRetries, req, res, polls, wsleeps, phist, sleeps,
                   cres, transient, bcfg, battempts, brand, bout, coVars, fnVars>>

\* one iteration in which HttpClient.Do returns an error, the transport
\* having read any part of the request body
SendFails ==
    /\ pc = "loop"
    /\ sends' = sends + 1
    /\ hist' = Append(hist, [kind |-> "transport", status |-> 0])
    /\ \E n \in 0..Len(AttemptBody(wire)) :
        wire' = [wire EXCEPT !.sent = AttemptBody(wire),
                             !.left = Rest(AttemptBody(wire), n)]
    /\ lastBody' = EmptyBody
    /\ IF RetryAllowed(attempts, MaxRetries)
       THEN /\ sleeps' = sleeps + 1
            /\ attempts' = attempts + 1
            /\ UNCHANGED <<pc, err>>
       ELSE /\ pc' = "done"
            /\ err' = "transport"
            /\ UNCHANGED <<sleeps, attempts>>
    /\ UNCHANGED <<MaxRetries, req, res, polls, wsleeps, phist,
                   cres, transient, bcfg, battempts, brand, bout, coVars, fnVars>>

\* one iteration in which the response arrives and reading its body fails
ReadFails ==
    /\ pc = "loop"
    /\ \E status \in ReadFailStatuses :
        /\ res' = [res EXCEPT !.StatusCode = status]
        /\ hist' = Append(hist, [kind |-> "read", status |-> status])
    /\ sends' = sends + 1
    /\ wire' = [wire EXCEPT !.sent = AttemptBody(wire),
                            !.left = Rest(AttemptBody(wire), Len(AttemptBody(wire)))]
    /\ lastBody' = EmptyBody
    /\ IF RetryAllowed(attempts, MaxRetries)
       THEN /\ sleeps' = sleeps + 1
            /\ attempts' = attempts + 1
            /\ UNCHANGED <<pc, err>>
       ELSE /\ pc' = "done"
            /\ err' = "read"
            /\ UNCHANGED <<sleeps, attempts>>
    /\ UNCHANGED <<MaxRetries, req, polls, wsleeps, phist,
                   cres, transient, bcfg, battempts, brand, bout, coVars, fnVars>>

\* one iteration in which a response is received and its body read
Respond ==
    /\ pc = "loop"
    /\ \E status \in Statuses, body \in Bodies :
        LET r == ParseResponse(res, req, status, body)
            d == Decide(r, req, attempts, MaxRetries)
        IN  /\ res' = r
            /\ hist' = Append(hist, [kind |-> "response", status |-> status])
            /\ lastBody' = body
            /\ sends' = sends + 1
            /\ CASE d = "continue" ->
                        /\ sleeps' = sleeps + 1
                        /\ attempts' = attempts + 1
                        /\ UNCHANGED <<pc, err>>
                 [] d = "fail" ->
                        /\ pc' = "done"
                        /\ err' = IF checkTransientError(r) \/ r.StatusCode < 200
                                     \/ r.StatusCode > 299
                                  THEN "HTTP Request failed"
                                  ELSE "RESTCONF Request failed"
                        /\ UNCHANGED <<sleeps, attempts>>
                 [] d = "break" ->
                        /\ pc' = AfterLoop(req)
                        /\ UNCHANGED <<sleeps, attempts, err>>
    /\ wire' = [wire EXCEPT !.sent = AttemptBody(wire),
                            !.left = Rest(AttemptBody(wire), Len(AttemptBody(wire)))]
    /\ UNCHANGED <<MaxRetries, req, polls, wsleeps, phist,
                   cres, transient, bcfg, battempts, brand, bout, coVars, fnVars>>

\* one iteration of the wait loop in which the query or the reading of its
\* answer fails: Do returns that error
PollFails ==
    /\ pc = "wait"
    /\ polls' = polls + 1
    /\ phist' = Append(phist, "failed")
    /\ pc' = AfterPollError(polls)
    /\ \E e \in {"transport", "read"} : err' = e
    /\ UNCHANGED <<MaxRetries, req, attempts, res, hist, sends, sleeps, wsleeps,
                   wire, lastBody,
                   cres, transient, bcfg, battempts, brand, bout, coVars, fnVars>>

\* one iteration of the wait loop in which the answer is read: datastores
\* is the list json.Unmarshal decoded from the body (empty for a body that
\* is no JSON)
PollResponds ==
    /\ pc = "wait"
    /\ polls' = polls + 1
    /\ \E datastores \in DatastoreLists :
        /\ phist' = Append(phist, Report(datastores))
        /\ IF ~HasLock(datastores)
           THEN pc' = "done" /\ wsleeps' = wsleeps
           ELSE /\ wsleeps' = wsleeps + 1
                /\ pc' = IF MorePolls(polls + 1) THEN "wait" ELSE "done"
    /\ UNCHANGED <<MaxRetries, req, attempts, res, err, hist, sends, sleeps,
                   wire, lastBody,
                   cres, transient, bcfg, battempts, brand, bout, coVars, fnVars>>

\* Do has returned <<res, err>>; the caller goes on
Return ==
    /\ pc = "done"
    /\ pc' = "idle"
    /\ req' = NoReq /\ attempts' = 0 /\ res' = EmptyRes /\ err' = "nil"
    /\ hist' = <<>> /\ sends' = 0 /\ sleeps' = 0 /\ polls' = 0 /\ wsleeps' = 0
    /\ wire' = NoWire /\ phist' = <<>> /\ lastBody' = EmptyBody
    /\ UNCHANGED <<MaxRetries, cres, transient, bcfg, battempts, brand, bout, coVars, fnVars>>

Next == DoCall \/ SendFails \/ ReadFails \/ Respond \/ PollFails \/ PollResponds \/ Return

Spec == Init /\ [][Next]_vars

----------------------------------------------------------------------------
(* The classifier alone: checkTransientError applied to an envelope *)

InitClassify ==
    /\ MaxRetries = 0
    /\ DoIdle /\ BoIdle /\ CoIdle /\ FnIdle
    /\ cres \in ClassifierInputs
    /\ transient = NotClassified

Classify ==
    /\ ~transient.called
    /\ transient' = [called |-> TRUE, found |-> checkTransientError(cres)]
    /\ UNCHANGED <<MaxRetries, req, pc, attempts, res, err, hist, sends, sleeps, polls,
                   wsleeps, wire, phist, lastBody, cres, bcfg, battempts, brand, bout,
                   coVars, fnVars>>

NextClassify == Classify

SpecClassify == InitClassify /\ [][NextClassify]_vars

----------------------------------------------------------------------------
(* The backoff policy alone: Client.Backoff applied to a configuration *)

\* largest BackoffMinDelay and BackoffMaxDelay, in seconds
DelayBound == 3

\* delay factors: 1/2, 1, 1.2 (the default) and 3
Factors == {[Num |-> 1, Den |-> 2], [Num |-> 1, Den |-> 1],
            [Num |-> 6, Den |-> 5], [Num |-> 3, Den |-> 1]}

InitBackoff ==
    /\ MaxRetries = 0
    /\ DoIdle /\ ClIdle /\ CoIdle /\ FnIdle
    /\ bcfg \in [MaxRetries : -1..RetryBound, BackoffMinDelay : 0..DelayBound,
                 BackoffMaxDelay : 0..DelayBound, BackoffDelayFactor : Factors]
    /\ battempts \in 0..(RetryBound + 1)
    /\ brand \in 0..JitterSteps
    /\ bout = NotCalled

BackoffCall ==
    /\ ~bout.called
    /\ LET b == Backoff(bcfg, battempts, brand)
       IN  bout' = [called |-> TRUE, ok |-> b.ok, slept |-> b.slept]
    /\ UNCHANGED <<MaxRetries, req, pc, attempts, res, err, hist, sends, sleeps, polls,
                   wsleeps, wire, phist, lastBody, cres, transient, bcfg, battempts,
                   brand, coVars, fnVars>>

NextBackoff == BackoffCall

SpecBackoff == InitBackoff /\ [][NextBackoff]_vars

----------------------------------------------------------------------------
(* The classifier with a rule table other than the declared one:           *)
(* TransientErrors is an exported package variable                         *)

\* a rule with every field unset
RuleUnset == TransientError(0, <<>>, <<>>)
\* rules that specify two fields
RuleStatusTag == TransientError(503, <<"lock-denied">>, <<>>)
RuleTagMessage == TransientError(0, <<"invalid-value">>, <<ChunkInconsistent>>)
\* a rule that specifies one field
RuleTag == TransientError(0, <<"in-use">>, <<>>)

CustomRules == {RuleUnset, RuleStatusTag, RuleTagMessage, RuleTag}

\* the declared table, and tables of one and of two custom rules
RuleTables ==
    {TransientErrors} \cup {<<r>> : r \in CustomRules}
    \cup {<<r1, r2>> : r1 \in CustomRules, r2 \in CustomRules}

\* checkTransientError with TransientErrors holding the given table
checkTransientErrorWith(table, r) ==
    ErrorLoop(table, CombinedErrors(r), 1, r.StatusCode, FALSE)

InitRules ==
    /\ MaxRetries = 0
    /\ DoIdle /\ BoIdle /\ CoIdle
    /\ pollIn = NoPollIn /\ pollOut = NoPollOut /\ newc = NoNewClient
    /\ rules \in RuleTables
    /\ cres \in ClassifierInputs
    /\ transient = NotClassified

ClassifyRules ==
    /\ ~transient.called
    /\ transient' = [called |-> TRUE, found |-> checkTransientErrorWith(rules, cres)]
    /\ UNCHANGED <<MaxRetries, req, pc, attempts, res, err, hist, sends, sleeps, polls,
                   wsleeps, wire, phist, lastBody, cres, bcfg, battempts, brand, bout,
                   coVars, fnVars>>

NextRules == ClassifyRules

SpecRules == InitRules /\ [][NextRules]_vars

----------------------------------------------------------------------------
(* NewClient alone: the Client built from the insecure flag and modifiers  *)

DefaultMaxRetries == 10
DefaultBackoffMinDelay == 1
DefaultBackoffMaxDelay == 60
DefaultBackoffDelayFactor == [Num |-> 6, Den |-> 5]

\* largest number of modifiers passed to NewClient
MaxMods == 2

\* modifiers passed to NewClient: MaxRetries(x), BackoffMinDelay(x),
\* BackoffMaxDelay(x), and SkipDiscovery(SkipEndpoint, x = 1); none of the
\* package's modifiers assigns Insecure or the TLS configuration
ClientMods ==
    {[mod |-> "MaxRetries", x |-> x] : x \in -1..RetryBound}
    \cup {[mod |-> m, x |-> x] : m \in {"BackoffMinDelay", "BackoffMaxDelay"},
                                 x \in 0..DelayBound}
    \cup {[mod |-> "SkipDiscovery", x |-> x] : x \in {0, 1}}

\* one modifier applied to the client
ApplyMod(c, m) ==
    CASE m.mod = "MaxRetries" -> [c EXCEPT !.MaxRetries = m.x]
      [] m.mod = "BackoffMinDelay" -> [c EXCEPT !.BackoffMinDelay = m.x]
      [] m.mod = "BackoffMaxDelay" -> [c EXCEPT !.BackoffMaxDelay = m.x]
      [] m.mod = "SkipDiscovery" -> SkipDiscovery(c, SkipEndpoint, m.x = 1)

\* "for _, mod := range mods { mod(&client) }"
RECURSIVE ApplyMods(_, _)
ApplyMods(c, mods) ==
    IF mods = <<>> THEN c ELSE ApplyMods(ApplyMod(c, Head(mods)), Tail(mods))

\* NewClient(url, usr, pwd, insecure, mods...): the transport's TLS
\* configuration is built with the literal InsecureSkipVerify: true, the
\* flag is stored in Client.Insecure, then the modifiers are applied
NewClient(insecure, mods) ==
    ApplyMods([Insecure |-> insecure, InsecureSkipVerify |-> TRUE,
               MaxRetries |-> DefaultMaxRetries,
               BackoffMinDelay |-> DefaultBackoffMinDelay,
               BackoffMaxDelay |-> DefaultBackoffMaxDelay,
               BackoffDelayFactor |-> DefaultBackoffDelayFactor,
               DiscoveryComplete |-> FALSE, RestconfEndpoint |-> "",
               YangPatchCapability |-> FALSE],
              mods)

InitNewClient ==
    /\ MaxRetries = 0
    /\ DoIdle /\ ClIdle /\ BoIdle /\ CoIdle /\ FnIdle

NewClientCall ==
    /\ ~newc.called
    /\ \E insecure \in BOOLEAN, mods \in SeqsUpTo(ClientMods, MaxMods) :
        newc' = [called |-> TRUE, client |-> NewClient(insecure, mods)]
    /\ UNCHANGED <<doVars, clVars, boVars, coVars, rules, pollIn, pollOut>>

NextNewClient == NewClientCall

SpecNewClient == InitNewClient /\ [][NextNewClient]_vars

----------------------------------------------------------------------------
(* One iteration of the wait loop alone: the datastore-status body is     *)
(* decoded and scanned                                                     *)

\* largest number of datastore records in one poll body
MaxDatastores == 2

\* a datastore record as the body states it: name, status, the number of
\* partial-lock entries, and the member whose JSON value has a type the
\* Go field cannot take ("none": every value has the right type)
BodyDatastores ==
    {d \in [Name : {"running", "candidate"}, Status : {"valid", "invalid"},
            Locks : {0, 1},
            bad : {"none", "name", "status", "transaction-id", "lock-id"}] :
        d.bad = "lock-id" => d.Locks > 0}

\* bodies read by a poll: nothing, text that is no JSON, and JSON documents
PollBodies ==
    {[kind |-> k, datastores |-> <<>>] : k \in {"empty", "garbage"}}
    \cup {[kind |-> "json", datastores |-> l] : l \in SeqsUpTo(BodyDatastores, MaxDatastores)}

\* json.Unmarshal into a DatastoreModel: a value of the wrong type is
\* skipped, leaving the field zero, and the other members are decoded; a
\* partial-lock entry whose lock-id is skipped is still an entry
DecodeDatastore(d) ==
    Datastore(IF d.bad = "name" THEN "" ELSE d.Name,
              IF d.bad = "status" THEN "" ELSE d.Status,
              d.Locks)

\* json.Unmarshal(bodyBytes, &status): a syntax error (an empty body is
\* one) leaves status untouched; a type error is returned after the whole
\* document has been decoded
UnmarshalDatastores(body) ==
    IF body.kind # "json"
    THEN [err |-> TRUE, Datastores |-> <<>>]
    ELSE [err |-> \E k \in 1..Len(body.datastores) : body.datastores[k].bad # "none",
          Datastores |-> [k \in 1..Len(body.datastores) |->
                            DecodeDatastore(body.datastores[k])]]

\* an iteration that returns the decoder's error to the caller
PollDecisionParseErrorReturned(i, body) ==
    LET status == UnmarshalDatastores(body)
    IN  [called |-> TRUE, parseError |-> status.err, hasLock |-> FALSE,
         pc |-> "done", err |-> IF status.err THEN "parse" ELSE "nil", slept |-> 0]

\* iteration i of the wait loop from the body it has read: the decoder's
\* error is logged only; without a lock the loop is left, with one the
\* loop sleeps a second and goes on while i + 1 < 10
PollDecision(i, body) ==
    LET status == UnmarshalDatastores(body)
        hasLock == HasLock(status.Datastores)
    IN  [called |-> TRUE, parseError |-> status.err, hasLock |-> hasLock,
         pc |-> IF hasLock /\ MorePolls(i + 1) THEN "wait" ELSE "done",
         err |-> "nil", slept |-> IF hasLock THEN 1 ELSE 0]

InitPoll ==
    /\ MaxRetries = 0
    /\ DoIdle /\ ClIdle /\ BoIdle /\ CoIdle
    /\ rules = TransientErrors /\ newc = NoNewClient
    /\ pollIn \in [i : 0..(PollLimit - 1), body : PollBodies]
    /\ pollOut = NoPollOut

PollOnce ==
    /\ ~pollOut.called
    /\ pollOut' = PollDecision(pollIn.i, pollIn.body)
    /\ UNCHANGED <<doVars, clVars, boVars, coVars, rules, pollIn, newc>>

NextPoll == PollOnce

SpecPoll == InitPoll /\ [][NextPoll]_vars

----------------------------------------------------------------------------
(* Data operations of several goroutines on one client: Discovery, then Do *)

\* MaxRetries of the shared client
ConcRetries == 1

Ops == {"GetData", "DeleteData", "PostData", "PutData", "PatchData", "YangPatchData"}

\* the HTTP method a data operation gives NewReq
Method(op) ==
    CASE op = "GetData" -> "GET"
      [] op = "DeleteData" -> "DELETE"
      [] op = "PostData" -> "POST"
      [] op = "PutData" -> "PUT"
      [] op \in {"PatchData", "YangPatchData"} -> "PATCH"

\* the request a data operation builds
OpReq(op, wait) ==
    [Method |-> Method(op),
     ContentType |-> IF op = "YangPatchData" THEN "application/yang-patch+json"
                     ELSE "application/yang-data+json",
     Wait |-> wait,
     Body |-> IF op \in {"GetData", "DeleteData"} THEN <<>> ELSE Payload]

\* a Discovery that fetches on every call
NeedsDiscoveryAlways(c) == TRUE

\* Discovery's test "if !client.DiscoveryComplete"
NeedsDiscovery(c) == ~c.DiscoveryComplete

\* a Discovery that goes on after a failed discoverRestconfEndpoint
DiscoveryFailsNever(outcome) == FALSE

\* discoverRestconfEndpoint returns an error: the request or the reading of
\* its answer failed, or the answer has no Link rel='restconf' href='...'
DiscoveryFails(outcome) == outcome # "ok"

\* a Do that takes the mutex for every request, GET included
NeedsLockAlways(method) == TRUE

\* a Do that never takes the mutex
NeedsLockNever(method) == FALSE

\* Do's test for taking the mutex
NeedsLock(method) == method # "GET"

\* a Discovery that returns with the mutex still held by goroutine p
AfterDiscoveryHeld(p) == p

\* the mutex after Discovery's deferred Unlock
AfterDiscovery(p) == 0

\* a Do that returns without unlocking
AfterDoHeld(method, m) == m

\* the mutex after Do's deferred Unlock, m being its value before
AfterDo(method, m) == IF NeedsLock(method) THEN 0 ELSE m

\* answers to the discovery document request
DocOutcomes == {"ok", "nomarker", "transport", "read"}

\* answers to the capabilities request: a failed request, a body that is no
\* JSON ("garbage"), a capability list whose second entry is a number
\* ("partial"), a capability list with the yang-patch capability
CapsOutcomes == {"transport", "garbage", "partial", "yangpatch"}

CapDepth == "urn:ietf:params:restconf:capability:depth:1.0"
CapYangPatch == "urn:ietf:params:restconf:capability:yang-patch:1.0"

\* a json.Unmarshal that leaves the target empty whenever it returns an error
ParseCapabilitiesStrict(outcome) ==
    CASE outcome \in {"garbage", "partial"} -> <<>>
      [] outcome = "yangpatch" -> <<CapDepth, CapYangPatch>>

\* caps.Capabilities.Capability after json.Unmarshal of the answer: invalid
\* JSON leaves it empty; an entry of the wrong type is reported as an error
\* after the rest has been decoded, the entry itself left at its zero value
ParseCapabilities(outcome) ==
    CASE outcome = "garbage" -> <<>>
      [] outcome = "partial" -> <<CapYangPatch, "">>
      [] outcome = "yangpatch" -> <<CapDepth, CapYangPatch>>

\* answers to a data request: the device's status and body
ConcResponses ==
    {[status |-> 200, body |-> EmptyBody],
     [status |-> 405, body |-> EmptyBody],
     [status |-> 502, body |-> EmptyBody],
     [status |-> 503, body |-> ErrorsBody("errors", <<ErrLockDenied>>)]}

\* the first goroutine calls any data operation, and PostData with or
\* without the Wait modifier; the others call GetData or PostData
OpsOf(p) == IF p = 1 THEN Ops ELSE {"GetData", "PostData"}
WaitFlags(p, op) == IF p = 1 /\ op = "PostData" THEN BOOLEAN ELSE {FALSE}

\* NewClient without options, or with SkipDiscovery
InitConc ==
    /\ MaxRetries = ConcRetries
    /\ DoIdle /\ ClIdle /\ BoIdle /\ FnIdle
    /\ mutex = 0 /\ procs = [p \in Procs |-> ProcIdle]
    /\ \/ client = NewClientState /\ net = NoTraffic
       \/ \E y \in BOOLEAN :
            /\ client = SkipDiscovery(NewClientState, SkipEndpoint, y)
            /\ net = [NoTraffic EXCEPT
                        !.skip = [on |-> TRUE, endpoint |-> SkipEndpoint, yangPatch |-> y]]

\* a goroutine calls a data operation, which calls Discovery
CallOp(p) ==
    /\ procs[p].pc = "idle"
    /\ \E op \in OpsOf(p) : \E wait \in WaitFlags(p, op) :
        procs' = [procs EXCEPT ![p] = [ProcIdle EXCEPT !.pc = "discovery", !.op = op,
                                                       !.wait = wait]]
    /\ UNCHANGED <<fnVars, doVars, clVars, boVars, mutex, client, net>>

\* Discovery takes the mutex; with discovery complete it returns nil at
\* once and the operation builds its request
DiscoveryLock(p) ==
    /\ procs[p].pc = "discovery"
    /\ mutex = 0
    /\ IF NeedsDiscovery(client)
       THEN /\ mutex' = p
            /\ procs' = [procs EXCEPT ![p].pc = "doc"]
       ELSE /\ mutex' = AfterDiscovery(p)
            /\ procs' = [procs EXCEPT ![p].pc = "built"]
    /\ UNCHANGED <<fnVars, doVars, clVars, boVars, client, net>>

\* a failed discoverRestconfEndpoint after which discovery counts as done
AfterDocFailureComplete(c) == [c EXCEPT !.DiscoveryComplete = TRUE]

\* the client after discoverRestconfEndpoint returned an error: Discovery
\* returns it before any field is assigned
AfterDocFailure(c) == c

\* discoverRestconfEndpoint: on an error Discovery returns it and the data
\* operation returns Res{} and that error
FetchDoc(p) ==
    /\ procs[p].pc = "doc"
    /\ \E outcome \in DocOutcomes :
        IF DiscoveryFails(outcome)
        THEN /\ procs' = [procs EXCEPT ![p].pc = "ret", ![p].doc = outcome,
                                       ![p].err = outcome]
             /\ mutex' = AfterDiscovery(p)
             /\ UNCHANGED net
             /\ client' = AfterDocFailure(client)
        ELSE /\ procs' = [procs EXCEPT ![p].pc = "caps", ![p].doc = outcome]
             /\ client' = [client EXCEPT !.RestconfEndpoint = "/restconf"]
             /\ net' = [net EXCEPT !.doc = @ + 1, !.endpointWrites = @ + 1]
             /\ UNCHANGED mutex
    /\ UNCHANGED <<fnVars, doVars, clVars, boVars>>

\* a Discovery that returns the error of discoverCapabilities
AfterCapsFailureIncomplete(c) == c

\* the client after discoverCapabilities returned an error: Discovery does
\* not look at it (the err it tests is discoverRestconfEndpoint's, nil) and
\* sets DiscoveryComplete
AfterCapsFailure(c) == [c EXCEPT !.DiscoveryComplete = TRUE]

\* discoverCapabilities, whose error Discovery drops, then
\* DiscoveryComplete = true and the deferred Unlock; "transport" is a
\* request or a body read that fails: either returns before any assignment
FetchCaps(p) ==
    /\ procs[p].pc = "caps"
    /\ \E outcome \in CapsOutcomes :
        /\ procs' = [procs EXCEPT ![p].pc = "built", ![p].caps = TRUE]
        /\ IF outcome = "transport"
           THEN /\ client' = AfterCapsFailure(client)
                /\ net' = [net EXCEPT !.caps = @ + 1, !.capsFailed = TRUE,
                                       !.capsAnswer = outcome]
           ELSE /\ client' =
                    [client EXCEPT
                        !.Capabilities = ParseCapabilities(outcome),
                        !.YangPatchCapability =
                            @ \/ \E i \in 1..Len(ParseCapabilities(outcome)) :
                                    ParseCapabilities(outcome)[i] = CapYangPatch,
                        !.DiscoveryComplete = TRUE]
                /\ net' = [net EXCEPT !.caps = @ + 1, !.capabilityWrites = @ + 1,
                                       !.capsAnswer = outcome]
    /\ mutex' = AfterDiscovery(p)
    /\ UNCHANGED <<fnVars, doVars, clVars, boVars>>

\* Do is entered: a request that is no GET takes the mutex
DoEnter(p) ==
    /\ procs[p].pc = "built"
    /\ IF NeedsLock(Method(procs[p].op))
       THEN mutex = 0 /\ mutex' = p
       ELSE UNCHANGED mutex
    /\ procs' = [procs EXCEPT ![p].pc = "loop", ![p].attempts = 0]
    /\ UNCHANGED <<fnVars, doVars, clVars, boVars, client, net>>

\* a Do that unlocks before its wait loop
AtWaitEntryReleased(m) == 0

\* the mutex when Do goes from its retry loop to its wait loop, m being its
\* value before: the deferred Unlock has not run
AtWaitEntry(m) == m

\* where a goroutine's Do goes, and what it returns, after an attempt; the
\* loop counter and the poll counter end with their loops
AfterAttempt(p, d, e) ==
    LET rq == OpReq(procs[p].op, procs[p].wait)
    IN  CASE d = "continue" ->
                /\ procs' = [procs EXCEPT ![p].attempts = @ + 1, ![p].sent = TRUE]
                /\ UNCHANGED mutex
          [] d = "fail" ->
                /\ procs' = [procs EXCEPT ![p].pc = "ret", ![p].err = e,
                                          ![p].sent = TRUE, ![p].attempts = 0]
                /\ mutex' = AfterDo(rq.Method, mutex)
          [] d = "break" ->
                /\ procs' = [procs EXCEPT ![p].pc = IF AfterLoop(rq) = "wait"
                                                    THEN "wait" ELSE "ret",
                                          ![p].sent = TRUE, ![p].attempts = 0]
                /\ mutex' = IF AfterLoop(rq) = "wait" THEN AtWaitEntry(mutex)
                            ELSE AfterDo(rq.Method, mutex)

\* one iteration of Do's loop: the send fails, or a response is parsed and
\* decided on
Attempt(p) ==
    /\ procs[p].pc = "loop"
    /\ \/ AfterAttempt(p, IF RetryAllowed(procs[p].attempts, MaxRetries)
                          THEN "continue" ELSE "fail", "transport")
       \/ \E a \in ConcResponses :
            LET rq == OpReq(procs[p].op, procs[p].wait)
                r == ParseResponse(EmptyRes, rq, a.status, a.body)
            IN  AfterAttempt(p, Decide(r, rq, procs[p].attempts, MaxRetries),
                             "HTTP Request failed")
    /\ UNCHANGED <<fnVars, doVars, clVars, boVars, client, net>>

\* one iteration of the wait loop of a goroutine's Do
Poll(p) ==
    /\ procs[p].pc = "wait"
    /\ \E report \in {"failed", "clear", "locked"} :
        IF report = "locked" /\ MorePolls(procs[p].polls + 1)
        THEN /\ procs' = [procs EXCEPT ![p].polls = @ + 1]
             /\ UNCHANGED mutex
        ELSE /\ procs' = [procs EXCEPT ![p].polls = 0, ![p].pc = "ret",
                                       ![p].err = IF report = "failed" THEN "transport"
                                                  ELSE "nil"]
             /\ mutex' = AfterDo(Method(procs[p].op), mutex)
    /\ UNCHANGED <<fnVars, doVars, clVars, boVars, client, net>>

\* the data operation has returned; the goroutine goes on
Finish(p) ==
    /\ procs[p].pc = "ret"
    /\ procs' = [procs EXCEPT ![p] = ProcIdle]
    /\ UNCHANGED <<fnVars, doVars, clVars, boVars, mutex, client, net>>

NextConc ==
    \E p \in Procs :
        \/ CallOp(p) \/ DiscoveryLock(p) \/ FetchDoc(p) \/ FetchCaps(p)
        \/ DoEnter(p) \/ Attempt(p) \/ Poll(p) \/ Finish(p)

SpecConc == InitConc /\ [][NextConc]_vars

\* a step of goroutine p inside a data operation it has called
Proceed(p) ==
    \/ DiscoveryLock(p) \/ FetchDoc(p) \/ FetchCaps(p)
    \/ DoEnter(p) \/ Attempt(p) \/ Poll(p)

\* the same with a transport that always returns and a scheduler that lets
\* every goroutine run: a goroutine that can step does, and one that waits
\* for the mutex gets it when it is free again and again (sync.Mutex hands
\* the lock to a waiter that has been starved)
SpecConcFair ==
    /\ SpecConc
    /\ \A p \in Procs : WF_vars(FetchDoc(p) \/ FetchCaps(p) \/ Attempt(p) \/ Poll(p))
    /\ \A p \in Procs : SF_vars(DiscoveryLock(p) \/ DoEnter(p))

----------------------------------------------------------------------------
(* Notions the claims are stated with *)

\* the last attempt of the call in progress
LastAttempt == hist[Len(hist)]
\* the last attempt received a response and its body was read
LastIsResponse == hist # <<>> /\ LastAttempt.kind = "response"
\* the number of the last attempt (attempts are counted from 0)
LastAttemptNo == Len(hist) - 1

\* a rule matches an error as the data model defines it: every field the
\* rule specifies matches the corresponding field of the response
RuleMatches(rule, resError, status) ==
    LET checks == RuleChecks(rule, resError, status)
    IN  \A k \in 1..Len(checks) : checks[k][1] => checks[k][2]

\* some error of the list matches some rule of the default table
SomeErrorMatches(errors, status) ==
    \E i \in 1..Len(errors), j \in 1..Len(TransientErrors) :
        RuleMatches(TransientErrors[j], errors[i], status)

\* all the error records a response body carries
BodyErrors(body) == body.errs \o EditErrors(body.edits)

\* all attempts but the last received HTTP 503
AllButLast503 ==
    \A k \in 1..(Len(hist) - 1) : hist[k].kind = "response" /\ hist[k].status = 503

----------------------------------------------------------------------------
(* C1 *)

\* C1 (as claimed): a GET that has received HTTP 503 on every attempt so far,
\* with retries left, sleeps once per 503 and sends again; when a 200 follows
\* k <= MaxRetries answers of 503 the call has returned without error after
\* exactly k sleeps and the envelope carries status 200.
C1_RetryThenSuccess ==
    req.Method = "GET" =>
        /\ (/\ hist # <<>>
            /\ AllButLast503
            /\ LastIsResponse /\ LastAttempt.status = 503
            /\ LastAttemptNo < MaxRetries)
           => (pc = "loop" /\ sleeps = Len(hist) /\ attempts = Len(hist))
        /\ (/\ hist # <<>>
            /\ AllButLast503
            /\ LastIsResponse /\ LastAttempt.status = 200
            /\ LastAttemptNo <= MaxRetries)
           => (pc = "done" /\ err = "nil" /\ sleeps = LastAttemptNo
               /\ res.StatusCode = 200)

----------------------------------------------------------------------------
(* C2 *)

\* C2 (as claimed): a response with status 500..504 and no structured errors
\* (empty body, or a body that is no error envelope) is retried while
\* attempts < MaxRetries instead of failing at once.
C2_Bare5xxRetried ==
    (/\ LastIsResponse
     /\ LastAttempt.status \in 500..504
     /\ res.Res.kind \in {"empty", "garbage"}
     /\ req.Method # "DELETE"
     /\ LastAttemptNo < MaxRetries)
    => (pc = "loop" /\ attempts = Len(hist) /\ sleeps = Len(hist))

----------------------------------------------------------------------------
(* C3 *)

\* C3 (as claimed): checkTransientError returns true exactly when at least one
\* error of the combined list matches at least one rule of the table, wherever
\* in the list the matching error stands.
C3_AnyErrorAnyRule ==
    transient.called =>
        (transient.found <=> SomeErrorMatches(CombinedErrors(cres), cres.StatusCode))

----------------------------------------------------------------------------
(* C4 *)

\* C4: when the last response has a status outside 200..299, is not classified
\* transient and is not the DELETE/502 case, Do has returned an error right
\* after that attempt: nothing was sent and no backoff sleep was made after
\* it, whatever MaxRetries is, and the envelope carries that status.
C4_PermanentNotRetried ==
    (/\ LastIsResponse
     /\ (LastAttempt.status < 200 \/ LastAttempt.status > 299)
     /\ ~checkTransientError(res)
     /\ ~(req.Method = "DELETE" /\ LastAttempt.status = 502))
    => (/\ pc = "done"
        /\ err # "nil"
        /\ sends = Len(hist)
        /\ sleeps = Len(hist) - 1
        /\ polls = 0
        /\ res.StatusCode = LastAttempt.status)

\* a 405 after one retried transport failure, with a retry still allowed
C4_Witness ==
    /\ MaxRetries = 2
    /\ Len(hist) = 2
    /\ hist[1].kind = "transport"
    /\ hist[2] = [kind |-> "response", status |-> 405]
    /\ pc = "done" /\ err = "HTTP Request failed"
    /\ sends = 2 /\ sleeps = 1
    /\ res.StatusCode = 405

----------------------------------------------------------------------------
(* C5 *)

\* C5 (as claimed): a first response with status 200 whose body is an error
\* envelope with a non-empty error list that matches no transient rule makes
\* Do fail at once: one send, no backoff sleep, a non-nil error.
C5_ProtocolErrorAt200 ==
    (/\ Len(hist) = 1
     /\ LastIsResponse
     /\ LastAttempt.status = 200
     /\ req.ContentType = "application/yang-data+json"
     /\ res.Res.kind \in {"errors", "nserrors"}
     /\ res.Res.errs # <<>>
     /\ ~SomeErrorMatches(res.Res.errs, 200))
    => (pc = "done" /\ err # "nil" /\ sends = 1 /\ sleeps = 0)

----------------------------------------------------------------------------
(* C6 *)

\* C6 (as claimed): a DELETE answered with 502 makes the call succeed: it is
\* not sent again, no backoff sleep follows, and the call returns a nil error.
C6_Delete502AlwaysNil ==
    (/\ req.Method = "DELETE"
     /\ LastIsResponse
     /\ LastAttempt.status = 502)
    => (/\ pc \in {"wait", "done"}
        /\ sends = Len(hist)
        /\ sleeps = Len(hist) - 1
        /\ err = "nil")

\* C6 (amended): a DELETE answered with 502 leaves the retry loop in success
\* whatever the body and the attempt number: it is not sent again and no
\* backoff sleep follows. The call returns a nil error, except that with the
\* Wait flag set a write-completion poll that fails makes it return that
\* poll's error; without the Wait flag no poll is sent.
C6_Delete502EndsLoop ==
    (/\ req.Method = "DELETE"
     /\ LastIsResponse
     /\ LastAttempt.status = 502)
    => (/\ pc \in {"wait", "done"}
        /\ sends = Len(hist)
        /\ sleeps = Len(hist) - 1
        /\ \/ err = "nil"
           \/ req.Wait /\ pc = "done" /\ polls >= 1 /\ err \in {"transport", "read"}
        /\ ~req.Wait => (pc = "done" /\ polls = 0 /\ err = "nil"))

\* a DELETE with Wait whose 502 answer carries a lock-denied error and whose
\* second poll fails
C6_Witness ==
    /\ req.Method = "DELETE" /\ req.Wait
    /\ hist = <<[kind |-> "response", status |-> 502]>>
    /\ res.Errors = <<ErrLockDenied>>
    /\ MaxRetries = 2
    /\ pc = "done" /\ err = "transport"
    /\ polls = 2 /\ sends = 1 /\ sleeps = 0

----------------------------------------------------------------------------
(* C7 *)

\* the last error of the combined list
LastError(r) == CombinedErrors(r)[Len(CombinedErrors(r))]

----------------------------------------------------------------------------
(* C8 *)

\* C8 (as claimed): a response carrying an error with tag "lock-denied" or
\* "in-use" is transient at status 200 too: Do retries it while
\* attempts < MaxRetries and otherwise returns an error.
C8_LockDeniedAt200 ==
    (/\ LastIsResponse
     /\ LastAttempt.status = 200
     /\ req.ContentType = "application/yang-data+json"
     /\ res.Res.kind = "errors"
     /\ \E k \in 1..Len(res.Res.errs) :
            res.Res.errs[k].ErrorTag \in {<<"lock-denied">>, <<"in-use">>})
    => IF LastAttemptNo < MaxRetries
       THEN pc = "loop" /\ attempts = Len(hist) /\ sleeps = Len(hist)
       ELSE pc = "done" /\ err # "nil"

----------------------------------------------------------------------------
(* C9 *)

\* C9: Backoff(attempts) returns true exactly when attempts < MaxRetries
\* (so false at attempts = MaxRetries, true at MaxRetries - 1 when
\* MaxRetries > 0, always false when MaxRetries = 0); it sleeps once when it
\* returns true and not at all when it returns false.
C9_BackoffPermitsRetry ==
    bout.called =>
        /\ bout.ok <=> battempts < bcfg.MaxRetries
        /\ battempts = bcfg.MaxRetries => ~bout.ok
        /\ (bcfg.MaxRetries > 0 /\ battempts = bcfg.MaxRetries - 1) => bout.ok
        /\ bcfg.MaxRetries = 0 => ~bout.ok
        /\ ~bout.ok => bout.slept = <<>>
        /\ bout.ok => Len(bout.slept) = 1

\* the last permitted retry
C9_Witness ==
    /\ bout.called /\ bout.ok
    /\ bcfg.MaxRetries = 2 /\ battempts = 1
    /\ Len(bout.slept) = 1

----------------------------------------------------------------------------
(* C10 *)

\* C10: with 0 <= minDelay <= maxDelay and factor >= 1, every delay Backoff
\* sleeps at an attempt a < MaxRetries lies in [minDelay, maxDelay].
C10_DelayInRange ==
    (/\ bout.called /\ bout.ok
     /\ 0 <= bcfg.BackoffMinDelay
     /\ bcfg.BackoffMinDelay <= bcfg.BackoffMaxDelay
     /\ bcfg.BackoffDelayFactor.Num >= bcfg.BackoffDelayFactor.Den)
    => \A k \in 1..Len(bout.slept) :
          /\ bcfg.BackoffMinDelay * TicksPerSecond <= bout.slept[k]
          /\ bout.slept[k] <= bcfg.BackoffMaxDelay * TicksPerSecond

\* the cap is reached: 1 s * 3^1 = 3 s, capped at 2 s, largest jitter
C10_Witness ==
    /\ bout.called /\ bout.ok
    /\ bcfg.BackoffMinDelay = 1 /\ bcfg.BackoffMaxDelay = 2
    /\ bcfg.BackoffDelayFactor = [Num |-> 3, Den |-> 1]
    /\ battempts = 1
    /\ brand = JitterSteps
    /\ bout.slept = <<2 * TicksPerSecond>>

----------------------------------------------------------------------------
(* C15 *)

\* every attempt of the call received a response
AllResponses == hist # <<>> /\ \A k \in 1..Len(hist) : hist[k].kind = "response"

\* the envelope a response alone gives: its status, and its body parsed
\* under the request's content type
EnvelopeOf(status, body) == ParseResponse(EmptyRes, req, status, body)

\* C15: when every attempt of a Do call with maxRetries >= 0 received a
\* response that the loop classified transient (every response that was
\* followed by another attempt was, and so is the last one), Do has sent
\* exactly maxRetries + 1 times, slept exactly maxRetries times and returns
\* an error, with the status code and the structured errors of the last
\* attempt in the envelope.
C15_AllTransientExhausts ==
    (/\ pc = "done" /\ MaxRetries >= 0
     /\ AllResponses
     /\ ~(req.Method = "DELETE" /\ LastAttempt.status = 502)
     /\ checkTransientError(res))
    => /\ sends = MaxRetries + 1
       /\ sleeps = MaxRetries
       /\ err # "nil"
       /\ res.StatusCode = LastAttempt.status
       /\ res.Errors = EnvelopeOf(LastAttempt.status, lastBody).Errors

C15_Witness ==
    /\ pc = "done" /\ MaxRetries = RetryBound /\ AllResponses
    /\ checkTransientError(res) /\ sends = RetryBound + 1 /\ sleeps = RetryBound
    /\ err = "HTTP Request failed" /\ res.StatusCode = 503
    /\ res.Errors = <<ErrLockDenied>>

----------------------------------------------------------------------------
(* C16 *)

\* the last attempt failed at the transport or while its body was read
LastFailed == hist # <<>> /\ LastAttempt.kind \in {"transport", "read"}

\* C16: after an attempt a that failed at the transport or at the reading of
\* the body, the call sleeps and goes to attempt a + 1 when a < maxRetries,
\* and otherwise returns that failure as its error; with maxRetries = 0 the
\* call returns an error after exactly one send.
C16_FailureRetriedOrReturned ==
    LastFailed =>
        /\ IF LastAttemptNo < MaxRetries
           THEN /\ pc = "loop" /\ err = "nil"
                /\ attempts = LastAttemptNo + 1
                /\ sleeps = LastAttemptNo + 1
           ELSE /\ pc = "done" /\ err = LastAttempt.kind
                /\ sleeps = LastAttemptNo
        /\ MaxRetries = 0 => pc = "done" /\ err # "nil" /\ sends = 1

C16_Witness ==
    /\ MaxRetries = 1 /\ Len(hist) = 2
    /\ hist[1].kind = "read" /\ hist[2].kind = "transport"
    /\ pc = "done" /\ err = "transport" /\ sends = 2 /\ sleeps = 1

----------------------------------------------------------------------------
(* C17 *)

\* what the final attempt alone puts into an envelope
FinalAttemptEnvelope ==
    CASE LastAttempt.kind = "transport" -> EmptyRes
      [] LastAttempt.kind = "read" -> [EmptyRes EXCEPT !.StatusCode = LastAttempt.status]
      [] LastAttempt.kind = "response" -> EnvelopeOf(LastAttempt.status, lastBody)

\* C17 (as claimed): the envelope Do returns holds the data of the final
\* attempt only: nothing when that attempt failed at the transport, the
\* status alone when the reading of its body failed, and else what its
\* response parses to.
C17_EnvelopeOfFinalAttempt ==
    (pc = "done" /\ hist # <<>>) => res = FinalAttemptEnvelope

----------------------------------------------------------------------------
(* C18 *)

\* C18: during a Do call the retained body is the body the request was
\* built with, and every attempt hands the transport a reader holding all
\* of it, whatever the attempt before has read.
C18_SameBodyEveryAttempt ==
    pc # "idle" =>
        /\ wire.body = req.Body
        /\ sends > 0 => wire.sent = req.Body

C18_Witness ==
    /\ sends = 2 /\ hist[1].kind = "transport" /\ hist[2].kind = "response"
    /\ req.Body = Payload /\ wire.sent = Payload /\ wire.left = <<>>

----------------------------------------------------------------------------
(* C19 *)

\* the first k polls of the wait reported a partial lock
LockedPrefix(k) == k <= Len(phist) /\ \A i \in 1..k : phist[i] = "locked"

----------------------------------------------------------------------------
(* C20 *)

\* C20: for every k below 10, when the first k polls reported a partial
\* lock and poll k reported none, the call has returned without an error
\* after exactly k + 1 polls and k sleeps; and while only locked polls,
\* fewer than 10, have been made, a waiting call has not returned.
C20_WaitEndsAtFirstClearPoll ==
    /\ \A k \in 0..(PollLimit - 1) :
        /\ (LockedPrefix(k) /\ Len(phist) > k /\ phist[k + 1] = "clear")
            => /\ pc = "done" /\ err = "nil"
               /\ polls = k + 1 /\ wsleeps = k
        /\ (LockedPrefix(k) /\ Len(phist) = k /\ k > 0) => pc = "wait"
    /\ (pc = "done" /\ err = "nil" /\ req.Wait /\ req.Method # "GET") => phist # <<>>

C20_Witness ==
    /\ phist = <<"locked", "locked", "clear">>
    /\ pc = "done" /\ err = "nil" /\ polls = 3 /\ wsleeps = 2

----------------------------------------------------------------------------
(* C11 *)

\* C11: a data operation whose Discovery received a discovery document
\* without the rel='restconf' marker has returned an error, and has sent
\* neither a capabilities request nor a data request.
C11_NoMarkerNoRequests ==
    \A p \in Procs :
        procs[p].doc = "nomarker" =>
            /\ procs[p].pc = "ret" /\ procs[p].err # "nil"
            /\ ~procs[p].caps /\ ~procs[p].sent

C11_Witness ==
    /\ procs[1].doc = "nomarker" /\ procs[1].op = "YangPatchData"
    /\ procs[1].pc = "ret" /\ procs[1].err = "nomarker"
    /\ ~client.DiscoveryComplete /\ net.caps = 0

----------------------------------------------------------------------------
(* C12 *)

\* goroutine p is past the Discovery call of its data operation
PastDiscovery(p) == procs[p].pc \in {"built", "loop", "wait"} \/ procs[p].sent

\* C12: on a client built without SkipDiscovery, whatever the calls and
\* their interleaving, the discovery document
\* is received (requests that failed not counted) and the capabilities are
\* requested at most once and, once discovery is complete, exactly once;
\* the endpoint is assigned exactly once, and so is the capability list
\* unless the capabilities request failed; a call builds and sends its
\* data request only after discovery is complete; and no goroutine is
\* inside a discovery request on a client whose discovery is complete.
C12_DiscoveryOnce ==
    /\ net.doc <= 1 /\ net.caps <= 1
    /\ net.endpointWrites <= 1 /\ net.capabilityWrites <= 1
    /\ (client.DiscoveryComplete /\ ~net.skip.on) =>
            /\ net.doc = 1 /\ net.caps = 1 /\ net.endpointWrites = 1
            /\ ~net.capsFailed => net.capabilityWrites = 1
    /\ \A p \in Procs :
        /\ PastDiscovery(p) => client.DiscoveryComplete
        /\ procs[p].pc \in {"doc", "caps"} => ~client.DiscoveryComplete

C12_Witness ==
    /\ procs[1].pc = "loop" /\ procs[1].caps /\ procs[1].op = "PostData"
    /\ procs[2].pc = "loop" /\ ~procs[2].caps /\ procs[2].sent
    /\ ~net.capsFailed
    /\ net.doc = 1 /\ net.caps = 1 /\ net.capabilityWrites = 1

----------------------------------------------------------------------------
(* C13 *)

\* goroutine p is in Do's loops with a request that is no GET
WriterInDo(p) == procs[p].pc \in {"loop", "wait"} /\ Method(procs[p].op) # "GET"

\* C13: at most one request that is no GET is in Do's send/retry loop (or
\* the wait that follows it) at any time, and a call that has not entered
\* the loop has sent nothing.
C13_OneWriterInDo ==
    /\ Cardinality({p \in Procs : WriterInDo(p)}) <= 1
    /\ \A p \in Procs : procs[p].pc \in {"discovery", "doc", "caps", "built"}
                            => ~procs[p].sent

C13_Witness ==
    /\ WriterInDo(2) /\ procs[2].attempts = 1 /\ mutex = 2
    /\ procs[1].pc = "built" /\ procs[1].op = "PutData" /\ ~procs[1].sent

----------------------------------------------------------------------------
(* C14 *)

\* goroutine p executes a data operation that is no read
Writer(p) == procs[p].pc # "idle" /\ Method(procs[p].op) # "GET"

\* C14 (as claimed): a non-read data operation holds the mutex from the
\* start of its discovery step to the end of its send/retry loop,
\* the point between Discovery's return and Do's entry included.
C14_HeldFromDiscoveryToLoopEnd ==
    \A p \in Procs :
        (Writer(p) /\ procs[p].pc \in {"doc", "caps", "built", "loop"}) => mutex = p

\* C14 (amended): a non-read data operation holds the mutex during its
\* discovery step and from Do's entry to the end of its loops, and does
\* not hold it between Discovery's return and Do's entry.
C14_HeldInDiscoveryAndInDo ==
    \A p \in Procs :
        /\ (Writer(p) /\ procs[p].pc \in {"doc", "caps", "loop", "wait"}) => mutex = p
        /\ procs[p].pc = "built" => mutex # p

C14_Witness ==
    /\ Writer(1) /\ procs[1].pc = "built" /\ procs[1].caps
    /\ mutex = 2 /\ WriterInDo(2)

----------------------------------------------------------------------------
(* C21 *)

\* the final attempt of the retry loop is a response that ends it in
\* success: a status in 200..299, or 502 for a DELETE
LoopSucceeded ==
    /\ LastIsResponse
    /\ \/ LastAttempt.status \in 200..299
       \/ req.Method = "DELETE" /\ LastAttempt.status = 502

\* C21: a poll whose request or body read failed is the last poll of the
\* call; the call has returned that error, with the envelope of the write
\* that succeeded, and neither a backoff sleep nor a wait sleep followed
\* the failed poll.
C21_PollFailureEndsWait ==
    \A k \in 1..Len(phist) :
        phist[k] = "failed" =>
            /\ k = Len(phist) /\ polls = k
            /\ pc = "done" /\ err \in {"transport", "read"}
            /\ wsleeps = k - 1 /\ sleeps = sends - 1
            /\ LoopSucceeded
            /\ res = EnvelopeOf(LastAttempt.status, lastBody)

C21_Witness ==
    /\ phist = <<"locked", "failed">> /\ pc = "done" /\ err = "read"
    /\ res.StatusCode = 200 /\ polls = 2 /\ wsleeps = 1

----------------------------------------------------------------------------
(* C22 *)

\* C22: a datastore-status query is sent, or about to be sent, only by a
\* call whose request has the Wait flag and a method other than GET and
\* whose retry loop ended in success.
C22_PollOnlyAfterWaitedWrite ==
    (polls > 0 \/ pc = "wait") =>
        /\ req.Wait /\ req.Method # "GET"
        /\ LoopSucceeded

C22_Witness ==
    /\ pc = "done" /\ err = "nil" /\ req.Method = "GET" /\ req.Wait
    /\ LoopSucceeded /\ polls = 0

----------------------------------------------------------------------------
(* C27 *)

\* max(a, b)
Max(a, b) == IF a > b THEN a ELSE b

\* C27: one Do call sends at most max(maxRetries, 0) + 1 times whatever
\* the attempts' outcomes, and inside the loop the attempt counter equals
\* the number of sends made.
C27_SendsBounded ==
    /\ sends <= Max(MaxRetries, 0) + 1
    /\ Len(hist) = sends
    /\ pc = "loop" => attempts = sends

C27_Witness ==
    /\ MaxRetries = RetryBound /\ sends = RetryBound + 1 /\ pc = "done"
    /\ hist[1].kind = "transport" /\ hist[2].kind = "read"
    /\ hist[3].kind = "response" /\ err = "HTTP Request failed"

----------------------------------------------------------------------------
(* C28 *)

\* C28: the retry loop is left in success (the wait is entered, or Do has
\* returned nil) only after a final response with a status in 200..299 or,
\* for a DELETE, 502; a nil return after a 2xx response carries no
\* structured error and an empty patch status; and every call that has
\* returned after another final attempt has returned an error.
C28_LoopOutcome ==
    /\ (pc = "wait" \/ (pc = "done" /\ err = "nil")) => LoopSucceeded
    /\ (pc = "done" /\ err = "nil" /\ LastAttempt.status \in 200..299)
            => res.Errors = <<>> /\ res.YangPatchStatus = EmptyStatus
    /\ (pc = "done" /\ ~LoopSucceeded) => err # "nil"

C28_Witness ==
    /\ pc = "done" /\ err = "nil" /\ LastAttempt.status = 200
    /\ lastBody = ErrorsBody("errors", <<ErrLockDenied>>)
    /\ res.Errors = <<>> /\ Len(hist) = 2 /\ hist[1].status = 503

----------------------------------------------------------------------------
(* C29 *)

\* C29: once the call has left its retry loop it has slept one time less
\* than it has sent, and inside the loop every send made was followed by a
\* sleep.
C29_SleepBetweenSends ==
    /\ pc \in {"wait", "done"} => sleeps = sends - 1
    /\ pc = "loop" => sleeps = sends

C29_Witness ==
    /\ pc = "done" /\ sends = RetryBound + 1 /\ sleeps = RetryBound
    /\ hist[1].kind = "transport" /\ hist[2].kind = "response"

----------------------------------------------------------------------------
(* C23 *)

\* C23: on a client built with SkipDiscovery no discovery document request
\* and no capabilities request is sent, whatever data operations are
\* called, and the endpoint and the YANG-Patch flag are the values given.
C23_SkipDiscoveryNoRequests ==
    net.skip.on =>
        /\ net.doc = 0 /\ net.caps = 0
        /\ net.endpointWrites = 0 /\ net.capabilityWrites = 0
        /\ client.RestconfEndpoint = net.skip.endpoint
        /\ client.YangPatchCapability = net.skip.yangPatch
        /\ \A p \in Procs :
            /\ procs[p].pc \notin {"doc", "caps"}
            /\ procs[p].doc = "none" /\ ~procs[p].caps

C23_Witness ==
    /\ net.skip.on /\ net.skip.yangPatch
    /\ procs[1].pc = "ret" /\ procs[1].sent /\ procs[1].op = "YangPatchData"
    /\ procs[2].pc = "loop" /\ procs[2].sent
    /\ client.RestconfEndpoint = SkipEndpoint /\ client.YangPatchCapability

----------------------------------------------------------------------------
(* C24 *)

\* the operation whose Discovery sent the capabilities request goes on to
\* Do: it has not returned without a send of its data request
CallerProceeds ==
    \A p \in Procs : (procs[p].caps /\ procs[p].pc = "ret") => procs[p].sent

----------------------------------------------------------------------------
(* C25 *)

\* some error of the list satisfies every field that some rule of the table
\* specifies
SomeErrorMatchesIn(table, errors, status) ==
    \E i \in 1..Len(errors), j \in 1..Len(table) :
        RuleMatches(table[j], errors[i], status)

\* C25 (as claimed): whatever the rule table, checkTransientError returns
\* true only if some error satisfies every field some rule specifies, so a
\* rule matched in part never makes the result true; and with a rule that
\* has every field unset in the table, every response that carries an error
\* is transient.
C25_FullMatchOnlyAndWildcard ==
    transient.called =>
        /\ transient.found
                => SomeErrorMatchesIn(rules, CombinedErrors(cres), cres.StatusCode)
        /\ ((\E j \in 1..Len(rules) : rules[j] = RuleUnset) /\ CombinedErrors(cres) # <<>>)
                => transient.found

----------------------------------------------------------------------------
(* C26 *)

\* the body states a record of the running datastore in status valid with
\* a partial lock
StatesLockedRunning(body) ==
    \E k \in 1..Len(body.datastores) :
        /\ body.datastores[k].Name = "running"
        /\ body.datastores[k].Status = "valid"
        /\ body.datastores[k].Locks > 0

\* the records decoded from the body include one of the running datastore
\* in status valid with a partial lock
DecodesLockedRunning(body) ==
    \E k \in 1..Len(body.datastores) :
        /\ body.datastores[k].Name = "running" /\ body.datastores[k].bad # "name"
        /\ body.datastores[k].Status = "valid" /\ body.datastores[k].bad # "status"
        /\ body.datastores[k].Locks > 0

\* the poll found no lock: the loop is left after it, without a sleep, and
\* Do goes on to return nil
TreatedAsNoLock ==
    ~pollOut.hasLock /\ pollOut.pc = "done" /\ pollOut.err = "nil" /\ pollOut.slept = 0

\* C26 (as claimed): a poll whose body json.Unmarshal rejects, whose body is
\* empty, or whose body states no running/valid record with a partial lock
\* is treated as "no lock".
C26_UnparsedOrUnlockedEndsWait ==
    (/\ pollOut.called
     /\ \/ pollOut.parseError
        \/ pollIn.body.kind = "empty"
        \/ ~StatesLockedRunning(pollIn.body))
    => TreatedAsNoLock

\* C26 (amended): a poll whose body is empty or no JSON, or whose decoded
\* records include no running/valid record with a partial lock, is treated
\* as "no lock", whether or not json.Unmarshal reported an error; a body
\* for which it reported an error and whose decoded records include such a
\* record is treated as locked.
C26_UndecodedOrUnlockedEndsWait ==
    pollOut.called =>
        /\ (\/ pollIn.body.kind \in {"empty", "garbage"}
            \/ ~DecodesLockedRunning(pollIn.body))
           => TreatedAsNoLock
        /\ (pollOut.parseError /\ DecodesLockedRunning(pollIn.body))
           => (pollOut.hasLock /\ pollOut.slept = 1 /\ pollOut.err = "nil")

C26_Witness ==
    /\ pollOut.called /\ pollIn.i = 0 /\ pollIn.body.kind = "empty"
    /\ pollOut.parseError /\ TreatedAsNoLock

----------------------------------------------------------------------------
(* C30 *)

\* goroutine p is inside Discovery, or inside Do with a request that is
\* no GET: the sections that hold the mutex
HoldsSection(p) ==
    \/ procs[p].pc \in {"doc", "caps"}
    \/ procs[p].pc \in {"loop", "wait"} /\ Method(procs[p].op) # "GET"

\* the mutex is held by a goroutine exactly while it is in a holding
\* section, so it is free when no call is in progress and is never taken
\* twice; and while some call has not returned, some call can step
MutexReleased ==
    /\ \A p \in Procs : mutex = p <=> HoldsSection(p)
    /\ (\A p \in Procs : procs[p].pc \in {"idle", "ret"}) => mutex = 0
    /\ (\E p \in Procs : procs[p].pc \notin {"idle", "ret"})
            => ENABLED (\E p \in Procs : Proceed(p))

\* C30: Discovery and Do release the mutex on every exit path, so it is
\* held only by a goroutine inside one of them, it is free whenever no call
\* is in progress, no call can take it twice, and, with a transport that
\* always returns and a scheduler that lets every goroutine run, every
\* call that was made returns.
C30_MutexReleasedCallsReturn ==
    /\ []MutexReleased
    /\ \A p \in Procs : (procs[p].pc # "idle") ~> (procs[p].pc = "ret")

C30_Witness ==
    /\ procs[1].pc = "ret" /\ procs[1].err = "transport" /\ procs[1].op = "PostData"
    /\ procs[1].wait /\ procs[1].sent
    /\ procs[2].pc = "loop" /\ procs[2].op = "PostData" /\ mutex = 2

----------------------------------------------------------------------------
(* C31 *)

\* goroutine p's call ended because fetching the discovery document failed
DocFailed(p) == procs[p].doc \in {"nomarker", "transport", "read"}

\* C31: a call whose fetch of the discovery document fails returns that
\* error after the one fetch, without a capabilities request and without
\* sending its data request; whatever calls have failed so, as long as no
\* fetch of the document has succeeded the client is as NewClient built it
\* (DiscoveryComplete false, endpoint and capabilities unassigned); and a
\* call that then gets the mutex fetches the document again.
C31_FailedDiscoveryLeavesUnresolved ==
    /\ \A p \in Procs :
        DocFailed(p) =>
            /\ procs[p].pc = "ret" /\ procs[p].err = procs[p].doc
            /\ ~procs[p].caps /\ ~procs[p].sent /\ mutex # p
    /\ (~net.skip.on /\ net.doc = 0) =>
            /\ client = NewClientState
            /\ net.endpointWrites = 0 /\ net.caps = 0 /\ net.capabilityWrites = 0
            /\ \A p \in Procs :
                (procs[p].pc = "discovery" /\ mutex = 0)
                    => ENABLED (DiscoveryLock(p) /\ procs'[p].pc = "doc")

C31_Witness ==
    /\ procs[1].pc = "ret" /\ procs[1].doc = "nomarker" /\ procs[1].err = "nomarker"
    /\ procs[2].pc = "doc" /\ mutex = 2
    /\ client = NewClientState /\ net.doc = 0

----------------------------------------------------------------------------
(* C32 *)

----------------------------------------------------------------------------
(* C33 *)

\* some other goroutine is inside Do with a request that is no GET
OtherWriterInDo(p) == \E q \in Procs \ {p} : WriterInDo(q)

\* C33: a GetData call that has passed Discovery takes no mutex: it enters
\* Do and makes its attempts whoever holds the mutex, so it overlaps with
\* other GETs and with a non-GET request; a GetData call that is still at
\* its Discovery while another goroutine is inside Do with a non-GET
\* request (retry loop or wait polling) has sent nothing and cannot step:
\* the mutex is held by that goroutine until its Do returns.
C33_GetWaitsAtDiscoveryOnly ==
    \A p \in Procs :
        procs[p].op = "GetData" =>
            /\ procs[p].pc = "built" => ENABLED DoEnter(p)
            /\ procs[p].pc = "loop" => (mutex # p /\ ENABLED Attempt(p))
            /\ (procs[p].pc = "discovery" /\ OtherWriterInDo(p)) =>
                    /\ \E q \in Procs \ {p} : WriterInDo(q) /\ mutex = q
                    /\ ~procs[p].sent
                    /\ ~ENABLED Proceed(p)

C33_Witness ==
    /\ procs[2].op = "GetData" /\ procs[2].pc = "discovery" /\ ~procs[2].sent
    /\ procs[1].op = "PostData" /\ procs[1].wait /\ procs[1].pc = "wait"
    /\ procs[1].polls = 2 /\ mutex = 1

----------------------------------------------------------------------------
(* C34 *)

\* C34: while a goroutine is in the wait loop of its Do it holds the
\* mutex; no other goroutine is inside Do with a request that is no GET or
\* inside Discovery, a non-GET request that is built cannot enter Do, and
\* a call at its Discovery cannot pass it. The polling ends by the
\* goroutine's return, which frees the mutex.
C34_PollingHoldsMutex ==
    \A q \in Procs :
        procs[q].pc = "wait" =>
            /\ mutex = q /\ Method(procs[q].op) # "GET" /\ procs[q].sent
            /\ \A p \in Procs \ {q} :
                /\ ~(procs[p].pc \in {"loop", "wait"} /\ Method(procs[p].op) # "GET")
                /\ procs[p].pc \notin {"doc", "caps"}
                /\ (procs[p].pc = "built" /\ Method(procs[p].op) # "GET")
                        => ~ENABLED DoEnter(p)
                /\ procs[p].pc = "discovery" => ~ENABLED DiscoveryLock(p)
            /\ ENABLED (Poll(q) /\ procs'[q].pc = "ret" /\ mutex' = 0)

C34_Witness ==
    /\ procs[1].pc = "wait" /\ procs[1].polls = 3 /\ mutex = 1
    /\ procs[2].pc = "built" /\ procs[2].op = "PostData" /\ ~procs[2].sent

----------------------------------------------------------------------------
(* C35 *)

\* C35 (as claimed): the TLS configuration of a client NewClient built
\* skips certificate verification exactly when the insecure flag, which
\* Client.Insecure stores, is true.
C35_TlsFlagHonoured ==
    newc.called => (newc.client.InsecureSkipVerify = newc.client.Insecure)

====
